---------------------------- MODULE Spec2Model ----------------------------
(***************************************************************************)
(* Image layer of the page server: the writer that builds an image layer   *)
(* file (summary, values, index) and the reader that serves point lookups  *)
(* from it with a lazily loaded index behind a readers-writer lock.        *)
(* Source: pageserver/src/layered_repository/image_layer.rs                *)
(***************************************************************************)
EXTENDS Integers, Naturals, Sequences, FiniteSets, TLC

\* ------------------------------------------------------------------ bounds

\* Keys are 0..MaxKey; the writer's key_range is [KeyStart, KeyEnd).
MaxKey == 3
\* Number of threads that run lookups (get_value, dump) in parallel.
NumReaders == 2

\* The LSN the layer is written at.
InitLsn == 2

\* The number of put_image calls followed on a writer whose file is large.
MaxWidePuts == 2

\* ------------------------------------------------------- program constants

PAGE_SZ == 8192
IMAGE_FILE_MAGIC == "IMAGE_FILE_MAGIC"
STORAGE_FORMAT_VERSION == "STORAGE_FORMAT_VERSION"

\* ------------------------------------------------------------------ inputs

Keys == 0..MaxKey
KeyStart == MaxKey - 2
KeyEnd == MaxKey
Readers == 1..NumReaders
\* The background task that calls unload (and delete) on the layer.
Unloader == NumReaders + 1
Threads == Readers \cup {Unloader}
\* The layer's LSN, and the identifiers of its tenant and timeline.
Lsns == {InitLsn}
TenantId == "tenant"
TimelineId == "timeline"
\* An image of len bytes, all equal to fill.
Img(len, fill) == [len |-> len, fill |-> fill]
Images == {Img(3, 1), Img(8000, 2)}

\* ------------------------------------------------------------ map helpers

EmptyMap == <<>>
MapInsert(m, k, v) == [x \in (DOMAIN m) \cup {k} |-> IF x = k THEN v ELSE m[x]]

\* Range<Key>::contains
RangeContains(r, k) == r[1] <= k /\ k < r[2]

\* BlobRef::new(pos, will_init) and BlobRef::pos(): the offset and the image
\* flag packed into one integer.
BlobRefNew(pos, will_init) == pos * 2 + (IF will_init THEN 1 ELSE 0)
BlobRefPos(b) == b \div 2
BlobRefWillInit(b) == b % 2 = 1

\* The length prefix of a blob: one byte up to 127 bytes, four bytes above.
BlobPrefixLen(img) == IF img.len < 128 THEN 1 ELSE 4
BlobSize(img) == BlobPrefixLen(img) + img.len

VARIABLES
    writer,   \* ImageLayerWriter: state, key_range, lsn, index, blob_writer offset
    wcall,    \* the writer's last call and what it returned
    puts,     \* the images handed to the put_image calls that returned Ok
    disk,     \* the layer file: exists, summary, blobs, index, and the parts
              \* written since the last fsync
    layer,    \* ImageLayer: its identity (made stays FALSE until finish)
    inner,    \* ImageLayerInner: loaded, index, index_start_blk, file, and for
              \* the record how often the layer opened its file (opens)
    reloaded, \* for the record: the index in memory was loaded through a file
              \* handle that was already cached
    lock,     \* RwLock around inner: the threads holding it shared, exclusively
    pc,       \* each thread's position
    call,     \* each thread's current call: op, key
    ret,      \* each thread's result: res, img
    remote,   \* the remote storage tests: the container, the test under way,
              \* the list request in flight and what the client returned
    wide      \* a writer whose file has grown past what 32 bits count: its
              \* write offset, and after finish its index_start_blk

vars == <<writer, wcall, puts, disk, layer, inner, reloaded, lock, pc, call, ret,
          remote, wide>>

\* Everything but the remote storage.
layerVars == <<writer, wcall, puts, disk, layer, inner, reloaded, lock, pc, call, ret,
               wide>>

writerVars == <<writer, wcall, puts>>
threadVars == <<pc, call, ret>>

\* ------------------------------------------------------------------ codecs

\* ImageFileName: the file name <key start>-<key end>__<LSN>.
FileName(key_range, lsn) == [key_range |-> key_range, lsn |-> lsn]

\* Summary written before finish: block 0 is still a hole of zero bytes.
ZeroSummary ==
    [magic |-> "zero", format_version |-> "zero", tenantid |-> "zero",
     timelineid |-> "zero", key_range |-> <<0, 0>>, lsn |-> 0,
     index_start_blk |-> 0]

RECURSIVE SortedKeys(_)
SortedKeys(S) ==
    IF S = {} THEN <<>>
    ELSE LET m == CHOOSE x \in S : \A y \in S : x <= y
         IN <<m>> \o SortedKeys(S \ {m})

\* HashMap::ser: the records (key, blob_ref), here in ascending key order.
HashMapSer(m) ==
    LET ks == SortedKeys(DOMAIN m)
    IN [i \in 1..Len(ks) |-> <<ks[i], m[ks[i]]>>]

\* HashMap::des_from: the map built from the records, in their order.
RECURSIVE HashMapDes(_)
HashMapDes(recs) ==
    IF recs = <<>> THEN EmptyMap
    ELSE LET n == Len(recs)
         IN MapInsert(HashMapDes(SubSeq(recs, 1, n - 1)), recs[n][1], recs[n][2])

\* ------------------------------------------------------------------ writer

\* Mutant: the blob writer starts at the beginning of the file.
NewWriter_seeded_zero(lsn) ==
    [state |-> "open", key_range |-> <<KeyStart, KeyEnd>>, lsn |-> lsn,
     index |-> EmptyMap, offset |-> 0]

\* ImageLayerWriter::new: the file is created (truncated) and the blob writer
\* starts after the summary block.
NewWriter(lsn) ==
    [state |-> "open", key_range |-> <<KeyStart, KeyEnd>>, lsn |-> lsn,
     index |-> EmptyMap, offset |-> PAGE_SZ]

NewFile ==
    [exists |-> TRUE, summary |-> ZeroSummary, blobs |-> EmptyMap,
     index |-> [at |-> 0, recs |-> <<>>], unsynced |-> <<>>]

\* Mutant: the end of key_range is taken as inclusive.
put_image_ensure_inclusive(key_range, key) == key_range[1] <= key /\ key <= key_range[2]

\* Mutant: no check of the key against key_range.
put_image_ensure_none(key_range, key) == TRUE

\* Mutant: the assertion is compiled out.
put_image_assert_none(index, key) == TRUE

\* ensure!(self.key_range.contains(&key))
put_image_ensure(key_range, key) == RangeContains(key_range, key)

\* assert!(old.is_none())
put_image_assert(index, key) == key \notin DOMAIN index

\* BlobWriter::write_blob: the blob lands at the pre-write offset.
write_blob(blobs, offset, img) == MapInsert(blobs, offset, img)

\* put_image(key, img): reject a key outside key_range, else write the blob
\* (an I/O error of write_blob is returned as it is), insert the index entry
\* and assert that the key was new.
put_image(key, img, f) ==
    /\ writer.state = "open"
    /\ IF ~put_image_ensure(writer.key_range, key)
       THEN /\ wcall' = [op |-> "put_image", key |-> key, ret |-> "Err"]
            /\ UNCHANGED <<writer, puts, disk>>
       ELSE IF f = "write"
       THEN /\ wcall' = [op |-> "put_image", key |-> key, ret |-> "IoErr"]
            /\ UNCHANGED <<writer, puts, disk>>
       ELSE LET off == writer.offset
                ok == put_image_assert(writer.index, key)
            IN /\ disk' = [disk EXCEPT !.blobs = write_blob(disk.blobs, off, img),
                                       !.unsynced = Append(@, "values")]
               /\ writer' = [writer EXCEPT
                      !.offset = off + BlobSize(img),
                      !.index = MapInsert(writer.index, key, BlobRefNew(off, TRUE)),
                      !.state = IF ok THEN "open" ELSE "panicked"]
               /\ puts' = IF ok THEN MapInsert(puts, key, img) ELSE puts
               /\ wcall' = [op |-> "put_image", key |-> key,
                            ret |-> IF ok THEN "Ok" ELSE "Panic"]
    /\ UNCHANGED <<layer, inner, reloaded, lock, pc, call, ret, remote, wide>>

\* Mutant: the block count is rounded down.
finish_index_start_blk_floor(size) == size \div PAGE_SZ

\* Block counts and byte offsets are u64 in the program. A block count n is
\* kept as the pair hi = n / 2^16, lo = n % 2^16, and a byte offset as its
\* whole pages, such a pair, and the bytes rem past them.
Half == 65536
Blk(hi, lo) == [hi |-> hi, lo |-> lo]
BlkSucc(b) == IF b.lo = Half - 1 THEN Blk(b.hi + 1, 0) ELSE Blk(b.hi, b.lo + 1)
BlkLe(a, b) == a.hi < b.hi \/ (a.hi = b.hi /\ a.lo <= b.lo)
Off(blk, rem) == [blk |-> blk, rem |-> rem]
OffLe(a, b) == IF a.blk = b.blk THEN a.rem <= b.rem ELSE BlkLe(a.blk, b.blk)

\* offset + n for n below two pages.
OffAdd(o, n) ==
    LET total == o.rem + n
        b1 == IF total >= PAGE_SZ THEN BlkSucc(o.blk) ELSE o.blk
        b2 == IF total >= 2 * PAGE_SZ THEN BlkSucc(b1) ELSE b1
    IN Off(b2, total % PAGE_SZ)

\* The offsets and block counts of a small file as integers.
ToOff(size) ==
    Off(Blk((size \div PAGE_SZ) \div Half, (size \div PAGE_SZ) % Half), size % PAGE_SZ)
FromBlk(b) == (b.hi * Half) + b.lo

\* n as u32: the low 32 bits of n.
as_u32(b) == Blk(b.hi % Half, b.lo)

\* ((self.blob_writer.size() + PAGE_SZ as u64 - 1) / PAGE_SZ as u64) as u32
finish_index_start_blk_u64(size) ==
    as_u32(IF size.rem = 0 THEN size.blk ELSE BlkSucc(size.blk))

\* index_start_blk = ceil(blob_writer.size() / PAGE_SZ), narrowed to u32
finish_index_start_blk(size) == FromBlk(finish_index_start_blk_u64(ToOff(size)))

\* finish: write the index at index_start_blk, the summary on block 0, and
\* hand out the layer, not loaded and with no file handle. The file is
\* closed as the function returns; nothing in it calls flush or fsync.
\* The variables layer and inner follow the first layer made for the path:
\* the layer that the finish of a later writer to the same path returns is
\* another object.
finish ==
    /\ writer.state = "open"
    /\ LET index_start_blk == finish_index_start_blk(writer.offset)
           summary == [magic |-> IMAGE_FILE_MAGIC,
                       format_version |-> STORAGE_FORMAT_VERSION,
                       tenantid |-> TenantId, timelineid |-> TimelineId,
                       key_range |-> writer.key_range, lsn |-> writer.lsn,
                       index_start_blk |-> index_start_blk]
       IN /\ disk' = [disk EXCEPT
                 !.index = [at |-> index_start_blk * PAGE_SZ,
                            recs |-> HashMapSer(writer.index)],
                 !.summary = summary,
                 !.unsynced = @ \o <<"index", "summary">>]
          /\ IF layer.made
             THEN UNCHANGED <<layer, inner>>
             ELSE /\ layer' = [made |-> TRUE, path_or_conf |-> "Conf",
                               path |-> FileName(writer.key_range, writer.lsn),
                               tenantid |-> TenantId, timelineid |-> TimelineId,
                               key_range |-> writer.key_range, lsn |-> writer.lsn]
                  /\ inner' = [loaded |-> FALSE, index |-> EmptyMap, file |-> "None",
                               index_start_blk |-> index_start_blk, opens |-> 0]
    /\ writer' = [writer EXCEPT !.state = "finished"]
    /\ wcall' = [op |-> "finish", key |-> 0, ret |-> "Ok"]
    /\ UNCHANGED <<puts, reloaded, lock, pc, call, ret, remote, wide>>

\* ------------------------------------------------------------------ reader

NoImg == <<>>
\* A call: the operation and its key, and for the record what the call met:
\* whether the file was deleted when it began (deleted), and a note of the
\* path it took: "reloaded" when a lookup used an index loaded through a
\* cached file handle (on a healthy disk: loaded, unloaded and loaded again),
\* and for unload "skipped" (the gate), "would_block" or "unloaded".
NoCall == [op |-> "none", key |-> 0, lsn_end |-> 0, deleted |-> FALSE, note |-> ""]
NewCall(op, key) ==
    [op |-> op, key |-> key, lsn_end |-> 0, deleted |-> ~disk.exists, note |-> ""]
Note(c, note) == [c EXCEPT !.note = note]
NoRet == [res |-> "none", img |-> NoImg]
Ret(res) == [res |-> res, img |-> NoImg]

\* The lock is free when no thread holds it in either mode.
LockFree == lock.writer = {} /\ lock.readers = {}

\* Mutant: the expected summary leaves the LSN out.
SummaryFrom_without_lsn(ly) ==
    [magic |-> IMAGE_FILE_MAGIC, format_version |-> STORAGE_FORMAT_VERSION,
     tenantid |-> ly.tenantid, timelineid |-> ly.timelineid,
     key_range |-> ly.key_range, lsn |-> 0, index_start_blk |-> 0]

\* impl From<&ImageLayer> for Summary
SummaryFrom(ly) ==
    [magic |-> IMAGE_FILE_MAGIC, format_version |-> STORAGE_FORMAT_VERSION,
     tenantid |-> ly.tenantid, timelineid |-> ly.timelineid,
     key_range |-> ly.key_range, lsn |-> ly.lsn, index_start_blk |-> 0]

\* A read through the file handle fails when the disk fails reads, or when
\* the file was unlinked and the descriptor behind the handle is gone.
ReadFails(d, f, fdgone) == f = "read" \/ (~d.exists /\ fdgone)

\* Mutant: the cached handle is not looked at; every load opens the path.
file_is_none_always(inn) == TRUE

\* inner.file.is_none()
file_is_none(inn) == inn.file = "None"

\* Mutant: the file is opened and the handle is not kept.
open_without_handle(inn) == [inn EXCEPT !.opens = @ + 1]

\* inner.file = Some(FileBlockReader::new(VirtualFile::open(&path)?))
open(inn) == [inn EXCEPT !.file = "Some", !.opens = @ + 1]

\* Mutant: load_inner reports success and leaves loaded unset.
load_inner_never_loaded(ly, inn, d, f, fdgone) ==
    LET open_fails == file_is_none(inn) /\ (~d.exists \/ f = "open")
        opened == IF file_is_none(inn) THEN open(inn) ELSE inn
    IN IF open_fails THEN [ok |-> FALSE, inner |-> inn]
       ELSE [ok |-> TRUE,
             inner |-> [opened EXCEPT
                 !.index_start_blk = d.summary.index_start_blk,
                 !.index = HashMapDes(d.index.recs)]]

\* Mutant: loaded is set as soon as the summary has been checked, before the
\* seek and the decoding of the index.
load_inner_loaded_early(ly, inn, d, f, fdgone) ==
    LET open_fails == file_is_none(inn) /\ (~d.exists \/ f = "open")
        opened == IF file_is_none(inn) THEN open(inn) ELSE inn
        actual_summary == d.summary
        expected_summary ==
            [SummaryFrom(ly) EXCEPT !.index_start_blk = actual_summary.index_start_blk]
        mismatch == ly.path_or_conf = "Conf" /\ actual_summary # expected_summary
        seek_fails == f = "seek"
        des_fails ==
            \/ f = "index"
            \/ actual_summary.index_start_blk * PAGE_SZ # d.index.at
        checked == [opened EXCEPT
                       !.index_start_blk = actual_summary.index_start_blk,
                       !.loaded = TRUE]
    IN IF open_fails THEN [ok |-> FALSE, inner |-> inn]
       ELSE IF ReadFails(d, f, fdgone) \/ mismatch
            THEN [ok |-> FALSE, inner |-> opened]
            ELSE IF seek_fails \/ des_fails
                 THEN [ok |-> FALSE, inner |-> checked]
                 ELSE [ok |-> TRUE,
                       inner |-> [checked EXCEPT !.index = HashMapDes(d.index.recs)]]

\* load_inner: open the file unless a handle is cached, read and check the
\* summary, seek to the index, decode it, and only then set index and loaded.
\* Yields whether it succeeded and the inner state it leaves.
load_inner(ly, inn, d, f, fdgone) ==
    LET open_fails == file_is_none(inn) /\ (~d.exists \/ f = "open")
        opened == IF file_is_none(inn) THEN open(inn) ELSE inn
        actual_summary == d.summary
        expected_summary ==
            [SummaryFrom(ly) EXCEPT !.index_start_blk = actual_summary.index_start_blk]
        mismatch == ly.path_or_conf = "Conf" /\ actual_summary # expected_summary
        seek_fails == f = "seek"
        des_fails ==
            \/ f = "index"
            \/ actual_summary.index_start_blk * PAGE_SZ # d.index.at
    IN IF open_fails THEN [ok |-> FALSE, inner |-> inn]
       ELSE IF ReadFails(d, f, fdgone) \/ mismatch \/ seek_fails \/ des_fails
            THEN [ok |-> FALSE, inner |-> opened]
            ELSE [ok |-> TRUE,
                  inner |-> [opened EXCEPT
                      !.index_start_blk = actual_summary.index_start_blk,
                      !.index = HashMapDes(d.index.recs),
                      !.loaded = TRUE]]

\* BlobCursor::read_blob(pos): the blob that starts at pos.
read_blob(d, pos, f, fdgone) ==
    IF ReadFails(d, f, fdgone) \/ pos \notin DOMAIN d.blobs
    THEN [ok |-> FALSE, buf |-> NoImg]
    ELSE [ok |-> TRUE, buf |-> d.blobs[pos]]

\* Mutant: the image is recorded with the end of the layer's lsn range.
reconstruct_img_lsn_end(ly, buf) == <<ly.lsn + 1, buf>>

\* reconstruct_state.img = Some((self.lsn, value))
reconstruct_img(ly, buf) == <<ly.lsn, buf>>

\* Mutant: an absent key sends the caller on to older layers.
get_value_absent_continue == "Continue"

\* What get_value_reconstruct_data answers for an absent key.
get_value_absent == "Missing"

\* The body of get_value_reconstruct_data under the guard load returned.
get_value_lookup(ly, inn, d, key, f, fdgone) ==
    IF key \in DOMAIN inn.index
    THEN IF inn.file = "None" THEN Ret("Panic")
         ELSE LET r == read_blob(d, BlobRefPos(inn.index[key]), f, fdgone)
              IN IF r.ok THEN [res |-> "Complete", img |-> reconstruct_img(ly, r.buf)]
                 ELSE Ret("Err")
    ELSE Ret(get_value_absent)

\* get_lsn_range: self.lsn..(self.lsn + 1), the end bound exclusive.
get_lsn_range(ly) == <<ly.lsn, ly.lsn + 1>>

\* assert!(lsn_range.end >= self.lsn)
get_value_assert_lsn(ly, lsn_end) == lsn_end >= ly.lsn

\* get_value_reconstruct_data, entry: the two assertions, then load.
get_value_reconstruct_data(t, key, lsn_end) ==
    /\ layer.made /\ pc[t] = "idle"
    /\ call' = [call EXCEPT ![t] = [NewCall("get_value", key) EXCEPT !.lsn_end = lsn_end]]
    /\ IF RangeContains(layer.key_range, key) /\ get_value_assert_lsn(layer, lsn_end)
       THEN pc' = [pc EXCEPT ![t] = "load_read"] /\ UNCHANGED ret
       ELSE pc' = [pc EXCEPT ![t] = "done"] /\ ret' = [ret EXCEPT ![t] = Ret("Panic")]
    /\ UNCHANGED <<writerVars, disk, layer, inner, reloaded, lock, remote, wide>>

\* dump(verbose): without verbose it returns at once, with it it loads.
dump(t, verbose) ==
    /\ layer.made /\ pc[t] = "idle"
    /\ call' = [call EXCEPT ![t] = NewCall("dump", 0)]
    /\ IF verbose
       THEN pc' = [pc EXCEPT ![t] = "load_read"] /\ UNCHANGED ret
       ELSE pc' = [pc EXCEPT ![t] = "done"] /\ ret' = [ret EXCEPT ![t] = Ret("Ok")]
    /\ UNCHANGED <<writerVars, disk, layer, inner, reloaded, lock, remote, wide>>

\* load, self.inner.read(): waits while a writer holds the lock; under the
\* shared lock, return the guard if loaded, else drop it to lock exclusively.
load_read(t) ==
    /\ pc[t] = "load_read"
    /\ lock.writer = {}
    /\ IF inner.loaded
       THEN /\ pc' = [pc EXCEPT ![t] = "guarded"]
            /\ lock' = [lock EXCEPT !.readers = @ \cup {t}]
       ELSE /\ pc' = [pc EXCEPT ![t] = "load_write"]
            /\ UNCHANGED lock
    /\ UNCHANGED <<writerVars, disk, layer, inner, reloaded, call, ret, remote, wide>>

\* load, self.inner.write(): waits until nobody holds the lock.
load_write(t) ==
    /\ pc[t] = "load_write"
    /\ LockFree
    /\ lock' = [lock EXCEPT !.writer = {t}]
    /\ pc' = [pc EXCEPT ![t] = "load_wlocked"]
    /\ UNCHANGED <<writerVars, disk, layer, inner, reloaded, call, ret, remote, wide>>

\* Mutant: under the exclusive lock load_inner runs whether or not another
\* thread loaded meanwhile.
load_locked_without_recheck(t, f) ==
    /\ pc[t] = "load_wlocked"
    /\ lock' = [lock EXCEPT !.writer = {}]
    /\ \E fdgone \in BOOLEAN :
          LET r == load_inner(layer, inner, disk, f, fdgone)
          IN /\ inner' = r.inner
             /\ reloaded' = (r.ok /\ inner.file = "Some")
             /\ IF r.ok
                THEN pc' = [pc EXCEPT ![t] = "load_read"] /\ UNCHANGED ret
                ELSE /\ pc' = [pc EXCEPT ![t] = "done"]
                     /\ ret' = [ret EXCEPT ![t] = Ret("Err")]
    /\ UNCHANGED <<writerVars, disk, layer, call, remote, wide>>

\* load, under the exclusive lock: load_inner unless another thread loaded
\* meanwhile; an error returns, anything else drops the lock and retries.
load_locked(t, f) ==
    /\ pc[t] = "load_wlocked"
    /\ lock' = [lock EXCEPT !.writer = {}]
    /\ IF ~inner.loaded
       THEN \E fdgone \in BOOLEAN :
               LET r == load_inner(layer, inner, disk, f, fdgone)
               IN /\ inner' = r.inner
                  /\ reloaded' = (r.ok /\ inner.file = "Some")
                  /\ IF r.ok
                     THEN pc' = [pc EXCEPT ![t] = "load_read"] /\ UNCHANGED ret
                     ELSE /\ pc' = [pc EXCEPT ![t] = "done"]
                          /\ ret' = [ret EXCEPT ![t] = Ret("Err")]
       ELSE pc' = [pc EXCEPT ![t] = "load_read"] /\ UNCHANGED <<inner, reloaded, ret>>
    /\ UNCHANGED <<writerVars, disk, layer, call, remote, wide>>

\* get_value_reconstruct_data and dump after load: use the index under the
\* guard, then drop the guard.
guarded(t, f) ==
    /\ pc[t] = "guarded"
    /\ lock' = [lock EXCEPT !.readers = @ \ {t}]
    /\ pc' = [pc EXCEPT ![t] = "done"]
    /\ IF call[t].op = "dump"
       THEN ret' = [ret EXCEPT ![t] = Ret("Ok")]
       ELSE \E fdgone \in BOOLEAN :
               ret' = [ret EXCEPT ![t] =
                   get_value_lookup(layer, inner, disk, call[t].key, f, fdgone)]
    /\ call' = [call EXCEPT ![t] = IF reloaded THEN Note(@, "reloaded") ELSE @]
    /\ UNCHANGED <<writerVars, disk, layer, inner, reloaded, remote, wide>>

\* The caller takes the result; the thread is free for its next call.
return(t) ==
    /\ pc[t] = "done"
    /\ pc' = [pc EXCEPT ![t] = "idle"]
    /\ call' = [call EXCEPT ![t] = NoCall]
    /\ ret' = [ret EXCEPT ![t] = NoRet]
    /\ UNCHANGED <<writerVars, disk, layer, inner, reloaded, lock, remote, wide>>

\* unload, the random gate: about nine calls in ten return at once.
unload(t) ==
    /\ layer.made /\ pc[t] = "idle"
    /\ \E skip \in BOOLEAN :
          IF skip
          THEN /\ pc' = [pc EXCEPT ![t] = "done"]
               /\ ret' = [ret EXCEPT ![t] = Ret("Ok")]
               /\ call' = [call EXCEPT ![t] = Note(NewCall("unload", 0), "skipped")]
          ELSE /\ pc' = [pc EXCEPT ![t] = "unload_try"]
               /\ call' = [call EXCEPT ![t] = NewCall("unload", 0)]
               /\ UNCHANGED ret
    /\ UNCHANGED <<writerVars, disk, layer, inner, reloaded, lock, remote, wide>>

\* Mutant: try_write that succeeds while a loader holds the lock exclusively.
try_write_ignoring_writer == lock.readers = {}

\* Mutant: try_write that succeeds while readers hold the lock.
try_write_ignoring_readers == lock.writer = {}

\* try_write succeeds exactly when nobody holds the lock.
try_write == LockFree

\* Mutant: unload closes the file as well.
unload_effect_drops_file(inn) ==
    [inn EXCEPT !.index = EmptyMap, !.loaded = FALSE, !.file = "None"]

\* Mutant: unload clears loaded and leaves the index in memory.
unload_effect_keeps_index(inn) == [inn EXCEPT !.loaded = FALSE]

\* Mutant: unload drops the index and leaves loaded set.
unload_effect_keeps_loaded(inn) == [inn EXCEPT !.index = EmptyMap]

\* What unload leaves in inner once it holds the exclusive lock.
unload_effect(inn) == [inn EXCEPT !.index = EmptyMap, !.loaded = FALSE]

\* unload, past the gate: try_write; on WouldBlock return Ok, else drop the
\* index, clear loaded and release the lock on return.
unload_try(t) ==
    /\ pc[t] = "unload_try"
    /\ IF try_write
       THEN /\ inner' = unload_effect(inner)
            /\ reloaded' = FALSE
            /\ call' = [call EXCEPT ![t] = Note(@, "unloaded")]
       ELSE /\ UNCHANGED <<inner, reloaded>>
            /\ call' = [call EXCEPT ![t] = Note(@, "would_block")]
    /\ pc' = [pc EXCEPT ![t] = "done"]
    /\ ret' = [ret EXCEPT ![t] = Ret("Ok")]
    /\ UNCHANGED <<writerVars, disk, layer, lock, remote, wide>>

\* delete: fs::remove_file(self.path())
delete(t) ==
    /\ layer.made /\ pc[t] = "idle"
    /\ call' = [call EXCEPT ![t] = NewCall("delete", 0)]
    /\ pc' = [pc EXCEPT ![t] = "done"]
    /\ ret' = [ret EXCEPT ![t] = Ret(IF disk.exists THEN "Ok" ELSE "Err")]
    /\ disk' = [disk EXCEPT !.exists = FALSE]
    /\ UNCHANGED <<writerVars, layer, inner, reloaded, lock, remote, wide>>

\* iter: todo!()
iter(t) ==
    /\ layer.made /\ pc[t] = "idle"
    /\ call' = [call EXCEPT ![t] = NewCall("iter", 0)]
    /\ pc' = [pc EXCEPT ![t] = "done"]
    /\ ret' = [ret EXCEPT ![t] = Ret("Panic")]
    /\ UNCHANGED <<writerVars, disk, layer, inner, reloaded, lock, remote, wide>>

\* Mutant: a layer is constructed with a file handle.
NewInner_with_file ==
    [loaded |-> FALSE, index |-> EmptyMap, file |-> "Some", index_start_blk |-> 0,
     opens |-> 0]

\* The inner state of a layer nothing was read for.
NewInner ==
    [loaded |-> FALSE, index |-> EmptyMap, file |-> "None", index_start_blk |-> 0,
     opens |-> 0]

\* No call is running on the layer, so the object can be replaced.
LayerIdle == LockFree /\ \A t \in Threads : pc[t] = "idle"

\* ImageLayer::new(conf, timelineid, tenantid, filename): the layer for an
\* existing file, its identity taken from the arguments; nothing is read.
new(timelineid, tenantid, filename) ==
    /\ writer.state = "finished" /\ LayerIdle
    /\ layer' = [made |-> TRUE, path_or_conf |-> "Conf", path |-> filename,
                 tenantid |-> tenantid, timelineid |-> timelineid,
                 key_range |-> filename.key_range, lsn |-> filename.lsn]
    /\ inner' = NewInner
    /\ reloaded' = FALSE
    /\ UNCHANGED <<writerVars, disk, lock, pc, call, ret, remote, wide>>

\* ImageLayer::new_for_path(path, file): the identity is taken from the
\* summary read from the file; path is kept as it was given.
new_for_path(path) ==
    /\ writer.state = "finished" /\ LayerIdle
    /\ disk.exists
    /\ LET summary == disk.summary
       IN layer' = [made |-> TRUE, path_or_conf |-> "Path", path |-> path,
                    tenantid |-> summary.tenantid, timelineid |-> summary.timelineid,
                    key_range |-> summary.key_range, lsn |-> summary.lsn]
    /\ inner' = NewInner
    /\ reloaded' = FALSE
    /\ UNCHANGED <<writerVars, disk, lock, pc, call, ret, remote, wide>>

\* The sealed file is as finish wrote it.
Pristine ==
    /\ disk.summary.magic = IMAGE_FILE_MAGIC
    /\ disk.summary.format_version = STORAGE_FORMAT_VERSION
    /\ disk.index.recs = HashMapSer(writer.index)

\* Damage to a sealed file: the magic or the format version overwritten, an
\* index record whose offset points at the index itself, or an index record
\* added for a key the index already has.
Corruptions == {"magic", "format_version", "offset", "duplicate"}

corrupt(c) ==
    /\ writer.state = "finished" /\ disk.exists /\ Pristine
    /\ c \in {"offset", "duplicate"} => disk.index.recs # <<>>
    /\ LET recs == disk.index.recs
           first == recs[1]
       IN disk' =
            CASE c = "magic" -> [disk EXCEPT !.summary.magic = "bad"]
              [] c = "format_version" -> [disk EXCEPT !.summary.format_version = "bad"]
              [] c = "offset" ->
                   [disk EXCEPT !.index.recs =
                       [recs EXCEPT ![1] = <<first[1], BlobRefNew(disk.index.at, TRUE)>>]]
              [] c = "duplicate" ->
                   [disk EXCEPT !.index.recs =
                       Append(recs, <<first[1], BlobRefNew(disk.index.at, TRUE)>>)]
    /\ UNCHANGED <<writerVars, layer, inner, reloaded, lock, pc, call, ret, remote,
                   wide>>

\* No large file is being written.
NoWide ==
    [state |-> "none", puts |-> 0, offset |-> Off(Blk(0, 0), 0),
     index_start_blk |-> Blk(0, 0), index_at |-> Off(Blk(0, 0), 0)]

\* A writer that has written up to offset.
WideWriter(offset) == [NoWide EXCEPT !.state = "open", !.offset = offset]

\* put_image on a writer of a large file, with a key of key_range that is
\* new: the blob is appended at the write offset.
put_image_u64(img) ==
    /\ wide.state = "open" /\ wide.puts < MaxWidePuts
    /\ wide' = [wide EXCEPT !.offset = OffAdd(@, BlobSize(img)), !.puts = @ + 1]
    /\ UNCHANGED <<writer, wcall, puts, disk, layer, inner, reloaded, lock, pc, call,
                   ret, remote>>

\* finish on a writer of a large file: index_start_blk is narrowed to u32,
\* and the index is written at index_start_blk as u64 * PAGE_SZ as u64.
finish_u64 ==
    /\ wide.state = "open"
    /\ LET index_start_blk == finish_index_start_blk_u64(wide.offset)
       IN wide' = [wide EXCEPT !.state = "finished",
                               !.index_start_blk = index_start_blk,
                               !.index_at = Off(index_start_blk, 0)]
    /\ UNCHANGED <<writer, wcall, puts, disk, layer, inner, reloaded, lock, pc, call,
                   ret, remote>>

\* ImageLayerWriter::new once more with the tenant, timeline, key_range and
\* lsn of a finished file, hence for the same path: VirtualFile::create
\* truncates the file; the layer made for the first file stays as it is.
rewrite ==
    /\ writer.state = "finished" /\ layer.made /\ disk.exists
    /\ LayerIdle
    /\ writer' = NewWriter(writer.lsn)
    /\ wcall' = [op |-> "new", key |-> 0, ret |-> "Ok"]
    /\ puts' = EmptyMap
    /\ disk' = NewFile
    /\ UNCHANGED <<layer, inner, reloaded, lock, pc, call, ret, remote, wide>>

\* The parts of the file a crash can lose: those written since the last fsync.
Unsynced(d) == {d.unsynced[i] : i \in DOMAIN d.unsynced}

\* A crash of the machine after finish: of the parts written and not synced,
\* those in lost never reached the disk (the summary block reads as zeros,
\* the index or the values are not there to read); the process starts again
\* with no layer in memory.
crash(lost) ==
    /\ writer.state = "finished" /\ LayerIdle /\ disk.exists
    /\ lost # {} /\ lost \subseteq Unsynced(disk)
    /\ disk' = [disk EXCEPT
           !.summary = IF "summary" \in lost THEN ZeroSummary ELSE @,
           !.index = IF "index" \in lost THEN [at |-> 0, recs |-> <<>>] ELSE @,
           !.blobs = IF "values" \in lost THEN EmptyMap ELSE @,
           !.unsynced = <<>>]
    /\ layer' = [layer EXCEPT !.made = FALSE]
    /\ inner' = NewInner
    /\ reloaded' = FALSE
    /\ UNCHANGED <<writerVars, lock, pc, call, ret, remote, wide>>

\* ---------------------------------------------------------- remote storage
\* The tests of the remote storage client against an Azure container
\* (libs/remote_storage/tests/test_real_azure.rs), with the container and the
\* client they call.

BASE_PREFIX == "test"
max_keys_in_list_response == 10
upload_tasks_count == 1 + (2 * max_keys_in_list_response)

\* A RemotePath is a sequence of components; a component is a name and the
\* number formatted into it (0 when there is none).
Seg(name, i) == [name |-> name, i |-> i]
IsPathPrefix(p, q) == Len(p) <= Len(q) /\ SubSeq(q, 1, Len(p)) = p

\* upload_azure_data: task i uploads {base_prefix}/sub_prefix_{i}/blob_{i}.
blob_prefix(i) == <<Seg(BASE_PREFIX, 0), Seg("sub_prefix_", i)>>
blob_path(i) == Append(blob_prefix(i), Seg("blob_", i))

\* upload_simple_azure_data: task i uploads folder{i / 7}/blob_{i}.txt.
simple_blob_path(i) == <<Seg("folder", i \div 7), Seg("blob_.txt", i)>>

\* The container as a list request sees it: the blobs below prefix, and with
\* a delimiter the blobs one level below it and, in place of the deeper
\* ones, their prefixes one level below it.
ListItems(names, prefix, delimiter) ==
    LET under == {n \in names : IsPathPrefix(prefix, n) /\ Len(n) > Len(prefix)}
    IN IF delimiter
       THEN [blobs |-> {n \in under : Len(n) = Len(prefix) + 1},
             prefixes |-> {SubSeq(n, 1, Len(prefix) + 1) :
                              n \in {m \in under : Len(m) > Len(prefix) + 1}}]
       ELSE [blobs |-> under, prefixes |-> {}]

\* The order in which the container lists items.
RECURSIVE ListOrder(_)
ListOrder(S) ==
    IF S = {} THEN <<>>
    ELSE LET m == CHOOSE x \in S : \A y \in S : x[Len(x)].i <= y[Len(y)].i
         IN <<m>> \o ListOrder(S \ {m})

\* One list response: at most max_results items from marker on, and the
\* marker to continue from (0 when the listing is complete).
ListPage(names, prefix, delimiter, marker, max_results) ==
    LET items == ListItems(names, prefix, delimiter)
        all == ListOrder(items.blobs \cup items.prefixes)
        last == IF marker + max_results < Len(all) THEN marker + max_results ELSE Len(all)
        page == {all[j] : j \in (marker + 1)..last}
    IN [blobs |-> page \cap items.blobs, prefixes |-> page \cap items.prefixes,
        next_marker |-> IF last < Len(all) THEN last ELSE 0]

NoList == [call |-> "none", prefix |-> <<>>, marker |-> 0, pages |-> 0, res |-> {}]
NoDownload == [start |-> 0, end |-> {}, buf |-> <<>>]
\* The last delete or delete_objects call: the paths handed to it, the
\* container it found, and whether it returned Ok.
NoDelete == [done |-> FALSE, paths |-> {}, before |-> EmptyMap, ok |-> TRUE]

NewRemote ==
    [test |-> "none", pc |-> "idle", i |-> 0, container |-> EmptyMap,
     remote_prefixes |-> {}, remote_blobs |-> {},
     list |-> NoList, root |-> {}, nested |-> {}, dl |-> NoDownload,
     del |-> NoDelete]

\* The tests that fill a container before they run, and the test that
\* uploads one file.
ListTests == {"azure_pagination_should_work", "azure_list_files_works"}

\* AsyncTestContext::setup: a client on a prefix of its own in the container,
\* so the test starts from an empty container; then the uploads.
setup(test) ==
    /\ remote.test = "none"
    /\ remote' = [NewRemote EXCEPT !.test = test, !.pc = "upload", !.i = 1]
    /\ UNCHANGED layerVars

\* upload_azure_data and upload_simple_azure_data: the upload of task i. The
\* tasks run side by side and touch different blobs; they are taken here in
\* the order of i.
upload_task ==
    /\ remote.test \in ListTests /\ remote.pc = "upload"
    /\ LET i == remote.i
           path == IF remote.test = "azure_pagination_should_work"
                   THEN blob_path(i) ELSE simple_blob_path(i)
           prefixes == IF remote.test = "azure_pagination_should_work"
                       THEN {blob_prefix(i)} ELSE {}
       IN remote' = [remote EXCEPT
              !.container = MapInsert(@, path, Seg("remote blob data ", i)),
              !.remote_prefixes = @ \cup prefixes,
              !.remote_blobs = @ \cup {path},
              !.i = i + 1,
              !.pc = IF i = upload_tasks_count THEN "list_root" ELSE "upload"]
    /\ UNCHANGED layerVars

\* list_prefixes(prefix) and list_files(folder): the request the client
\* starts. list_prefixes lists with the delimiter and keeps the prefixes of
\* the responses, list_files lists without it and keeps the blobs.
list_prefixes(prefix) ==
    [call |-> "list_prefixes", prefix |-> prefix, marker |-> 0, pages |-> 0, res |-> {}]
list_files(folder) ==
    [call |-> "list_files", prefix |-> folder, marker |-> 0, pages |-> 0, res |-> {}]

\* Mutant: the client stops after the first response.
list_continues_never(page) == FALSE

\* The client asks for the next response while the last one carried a marker.
list_continues(page) == page.next_marker # 0

\* One query of a list request: the response is added to the result; without
\* a marker in it the request returns to the test.
list_response ==
    /\ remote.pc \in {"listing_root", "listing_nested"}
    /\ LET l == remote.list
           page == ListPage(DOMAIN remote.container, l.prefix,
                            l.call = "list_prefixes", l.marker,
                            max_keys_in_list_response)
           res == l.res \cup (IF l.call = "list_prefixes" THEN page.prefixes
                                                        ELSE page.blobs)
       IN IF list_continues(page)
          THEN remote' = [remote EXCEPT
                   !.list = [l EXCEPT !.marker = page.next_marker,
                                      !.pages = @ + 1, !.res = res]]
          ELSE remote' = [remote EXCEPT
                   !.list = [l EXCEPT !.pages = @ + 1, !.res = res],
                   !.root = IF remote.pc = "listing_root" THEN res ELSE @,
                   !.nested = IF remote.pc = "listing_nested" THEN res ELSE @,
                   !.pc = IF remote.pc = "listing_root" THEN "list_nested" ELSE "assert"]
    /\ UNCHANGED layerVars

\* azure_pagination_should_work: list_prefixes(None), list_prefixes(base
\* prefix), and the two assertions on what they returned.
azure_pagination_should_work ==
    /\ remote.test = "azure_pagination_should_work"
    /\ LET base_prefix == <<Seg(BASE_PREFIX, 0)>>
       IN \/ /\ remote.pc = "list_root"
             /\ remote' = [remote EXCEPT !.list = list_prefixes(<<>>),
                                         !.pc = "listing_root"]
          \/ /\ remote.pc = "list_nested"
             /\ remote' = [remote EXCEPT !.list = list_prefixes(base_prefix),
                                         !.pc = "listing_nested"]
          \/ /\ remote.pc = "assert"
             /\ remote' = [remote EXCEPT !.pc =
                    IF /\ remote.root = {base_prefix}
                       /\ remote.nested \ remote.remote_prefixes = {}
                       /\ remote.remote_prefixes \ remote.nested = {}
                    THEN "passed" ELSE "failed"]
    /\ UNCHANGED layerVars

\* azure_list_files_works: list_files(None), list_files(folder1), and the
\* two assertions on what they returned.
azure_list_files_works ==
    /\ remote.test = "azure_list_files_works"
    /\ LET base_prefix == <<Seg("folder", 1)>>
           trim_remote_blobs == {x \in remote.remote_blobs : IsPathPrefix(base_prefix, x)}
       IN \/ /\ remote.pc = "list_root"
             /\ remote' = [remote EXCEPT !.list = list_files(<<>>),
                                         !.pc = "listing_root"]
          \/ /\ remote.pc = "list_nested"
             /\ remote' = [remote EXCEPT !.list = list_files(base_prefix),
                                         !.pc = "listing_nested"]
          \/ /\ remote.pc = "assert"
             /\ remote' = [remote EXCEPT !.pc =
                    IF remote.root = remote.remote_blobs /\ remote.nested = trim_remote_blobs
                    THEN "passed" ELSE "failed"]
    /\ UNCHANGED layerVars

\* azure_upload_download_works: the bytes "remote blob data here".
data ==
    <<"r", "e", "m", "o", "t", "e", " ", "b", "l", "o", "b", " ",
      "d", "a", "t", "a", " ", "h", "e", "r", "e">>
data_len == Len(data)
file_path == <<Seg(BASE_PREFIX, 0), Seg("file", 0)>>

\* Rust's bytes[a..b] and bytes[a..].
Slice(bytes, a, b) == SubSeq(bytes, a + 1, b)
SliceFrom(bytes, a) == SubSeq(bytes, a + 1, Len(bytes))

\* An Option is the set of what it holds: None is {}, Some(x) is {x}.
None == {}
Some(x) == {x}

\* Mutant: the exclusive end is sent as the last byte of the range.
RangeHeader_end_inclusive(start_inclusive, end_exclusive) ==
    [first |-> start_inclusive, last |-> end_exclusive]

\* The byte range the client asks for: the first byte and, when an end is
\* given, the last byte, which is the one before the exclusive end.
RangeHeader(start_inclusive, end_exclusive) ==
    [first |-> start_inclusive, last |-> {e - 1 : e \in end_exclusive}]

\* The container's answer to a ranged read of a blob: the bytes from first
\* to last, or to the blob's last byte when last is absent or lies beyond it.
GetBlobRange(bytes, range) ==
    LET n == Len(bytes)
        last == IF range.last = {} \/ (\E l \in range.last : l >= n)
                THEN n - 1 ELSE CHOOSE l \in range.last : TRUE
    IN SubSeq(bytes, range.first + 1, last + 1)

\* download(path) and download_byte_range(path, start_inclusive, end_exclusive)
download(container, path) == container[path]
download_byte_range(container, path, start_inclusive, end_exclusive) ==
    GetBlobRange(container[path], RangeHeader(start_inclusive, end_exclusive))

\* The downloads of azure_upload_download_works in their order: the request
\* and the bytes asserted; the first is the plain download.
DownloadSteps ==
    <<[start |-> 0, end |-> None, expect |-> data],
      [start |-> 0, end |-> Some(data_len), expect |-> data],
      [start |-> 4, end |-> Some(10), expect |-> Slice(data, 4, 10)],
      [start |-> 8, end |-> Some(data_len * 100), expect |-> SliceFrom(data, 8)],
      [start |-> 4, end |-> None, expect |-> SliceFrom(data, 4)],
      [start |-> 0, end |-> None, expect |-> data]>>

\* azure_upload_download_works: the upload, then download after download,
\* each compared with the bytes expected.
azure_upload_download_works ==
    /\ remote.test = "azure_upload_download_works"
    /\ \/ /\ remote.pc = "upload"
          /\ remote' = [remote EXCEPT !.container = MapInsert(@, file_path, data),
                                      !.pc = "download", !.i = 1]
       \/ /\ remote.pc = "download"
          /\ LET step == DownloadSteps[remote.i]
                 buf == IF remote.i = 1
                        THEN download(remote.container, file_path)
                        ELSE download_byte_range(remote.container, file_path,
                                                 step.start, step.end)
             IN remote' = [remote EXCEPT
                    !.dl = [start |-> step.start, end |-> step.end, buf |-> buf],
                    !.i = @ + 1,
                    !.pc = IF buf # step.expect THEN "failed"
                           ELSE IF remote.i = Len(DownloadSteps) THEN "passed"
                           ELSE "download"]
    /\ UNCHANGED layerVars

\* A caller's download_byte_range of the uploaded file, for any range that
\* starts inside the file.
download_range(start_inclusive, end_exclusive) ==
    /\ remote.test = "azure_upload_download_works" /\ remote.pc = "download"
    /\ start_inclusive < Len(remote.container[file_path])
    /\ \A e \in end_exclusive : start_inclusive < e
    /\ remote' = [remote EXCEPT !.dl =
           [start |-> start_inclusive, end |-> end_exclusive,
            buf |-> download_byte_range(remote.container, file_path,
                                        start_inclusive, end_exclusive)]]
    /\ UNCHANGED layerVars

\* The paths of the delete tests: one nothing was uploaded to, and path1,
\* path2 and path3 below the base prefix.
nothing_there ==
    <<Seg(BASE_PREFIX, 0), Seg("for_sure_there_is_nothing_there_really", 0)>>
path_n(i) == <<Seg(BASE_PREFIX, 0), Seg("path", i)>>
DeletePaths == {path_n(i) : i \in 1..3} \cup {nothing_there}

\* The container without the blobs at the paths ks.
Remove(container, ks) == [x \in (DOMAIN container) \ ks |-> container[x]]

\* delete(path): the blob at path is removed; the container's answer that
\* there is no such blob is taken as success.
client_delete(container, path) ==
    [ok |-> TRUE, container |-> Remove(container, {path})]

\* Mutant: delete_objects clears everything below the paths' common prefix.
delete_objects_whole_prefix(container, paths) ==
    [ok |-> TRUE, container |-> IF paths = {} THEN container ELSE EmptyMap]

\* delete_objects(paths): delete(path) for each path in turn.
delete_objects(container, paths) ==
    [ok |-> \A path \in paths : client_delete(container, path).ok,
     container |-> Remove(container, paths)]

Deleted(paths, r) ==
    [done |-> TRUE, paths |-> paths, before |-> remote.container, ok |-> r.ok]

\* azure_delete_non_exising_works: delete of a path nothing was uploaded to,
\* expected to succeed.
azure_delete_non_exising_works ==
    /\ remote.test = "azure_delete_non_exising_works" /\ remote.pc = "upload"
    /\ LET r == client_delete(remote.container, nothing_there)
       IN remote' = [remote EXCEPT
              !.container = r.container,
              !.del = Deleted({nothing_there}, r),
              !.pc = IF r.ok THEN "passed" ELSE "failed"]
    /\ UNCHANGED layerVars

\* azure_delete_objects_works: three uploads, delete_objects of the first two
\* paths, list_prefixes(None) with its assertion, delete_objects of the third.
azure_delete_objects_works ==
    /\ remote.test = "azure_delete_objects_works"
    /\ \/ /\ remote.pc = "upload"
          /\ remote' = [remote EXCEPT
                 !.container = MapInsert(@, path_n(remote.i),
                                         Seg("remote blob data", remote.i)),
                 !.i = @ + 1,
                 !.pc = IF remote.i = 3 THEN "delete_objects" ELSE "upload"]
       \/ /\ remote.pc = "delete_objects"
          /\ LET paths == {path_n(1), path_n(2)}
                 r == delete_objects(remote.container, paths)
             IN remote' = [remote EXCEPT
                    !.container = r.container,
                    !.del = Deleted(paths, r),
                    !.pc = IF r.ok THEN "list_root" ELSE "failed"]
       \/ /\ remote.pc = "list_root"
          /\ remote' = [remote EXCEPT !.list = list_prefixes(<<>>),
                                      !.pc = "listing_root"]
       \/ /\ remote.pc = "list_nested"
          /\ remote' = [remote EXCEPT !.pc =
                 IF Cardinality(remote.root) = 1 THEN "delete_rest" ELSE "failed"]
       \/ /\ remote.pc = "delete_rest"
          /\ LET paths == {path_n(3)}
                 r == delete_objects(remote.container, paths)
             IN remote' = [remote EXCEPT
                    !.container = r.container,
                    !.del = Deleted(paths, r),
                    !.pc = IF r.ok THEN "passed" ELSE "failed"]
    /\ UNCHANGED layerVars

\* A caller's delete_objects of any of the test's paths, present or not, on
\* the container the test has reached before its last delete.
delete_call(paths) ==
    /\ remote.test = "azure_delete_objects_works" /\ remote.pc = "delete_rest"
    /\ LET r == delete_objects(remote.container, paths)
       IN remote' = [remote EXCEPT !.container = r.container,
                                   !.del = Deleted(paths, r)]
    /\ UNCHANGED layerVars

\* teardown: the blobs of the test are deleted; the next test starts afresh.
teardown ==
    /\ remote.pc \in {"passed", "failed"}
    /\ remote' = NewRemote
    /\ UNCHANGED layerVars

\* ----------------------------------------------------------- specification

NoLayer ==
    [made |-> FALSE, path_or_conf |-> "Conf",
     path |-> FileName(<<KeyStart, KeyEnd>>, 0), tenantid |-> TenantId,
     timelineid |-> TimelineId, key_range |-> <<KeyStart, KeyEnd>>, lsn |-> 0]

InitLayer ==
    /\ \E lsn \in Lsns : writer = NewWriter(lsn)
    /\ wcall = [op |-> "new", key |-> 0, ret |-> "Ok"]
    /\ puts = EmptyMap
    /\ disk = NewFile
    /\ layer = NoLayer
    /\ inner = NewInner
    /\ reloaded = FALSE
    /\ lock = [readers |-> {}, writer |-> {}]
    /\ pc = [t \in Threads |-> "idle"]
    /\ call = [t \in Threads |-> NoCall]
    /\ ret = [t \in Threads |-> NoRet]
    /\ remote = NewRemote

Init == InitLayer /\ wide = NoWide

\* A writer that has written a large file: write offsets around 2^16 and
\* 2^32 pages, at a page boundary, right past one and right before the next.
WideOffsets ==
    {Off(Blk(hi, lo), rem) :
        hi \in {0, 1, Half - 1, Half, Half + 1},
        lo \in {1, 2, Half - 2, Half - 1},
        rem \in {0, 1, PAGE_SZ - 4, PAGE_SZ - 1}}

InitWide == InitLayer /\ \E offset \in WideOffsets : wide = WideWriter(offset)

NextWide ==
    \/ \E img \in Images : put_image_u64(img)
    \/ finish_u64

SpecWide == InitWide /\ [][NextWide]_vars

\* The I/O steps that may fail: write_blob in put_image; open, read_blk, seek
\* and the index read in load_inner; the blob read in get_value.
WriteFaults == {"write"}
LoadFaults == {"open", "read", "seek", "index"}
BlobFaults == {"read"}

WriterNext ==
    \/ \E key \in Keys, img \in Images : put_image(key, img, "none")
    \/ finish

\* The writer with a disk whose writes may fail.
WriterNextFaults ==
    \/ WriterNext
    \/ \E key \in Keys, img \in Images, f \in WriteFaults : put_image(key, img, f)

ReaderNext(t) ==
    \/ \E key \in Keys : get_value_reconstruct_data(t, key, get_lsn_range(layer)[2])
    \/ \E verbose \in BOOLEAN : dump(t, verbose)
    \/ load_read(t)
    \/ load_write(t)
    \/ load_locked(t, "none")
    \/ guarded(t, "none")
    \/ return(t)

UnloaderNext ==
    \/ unload(Unloader)
    \/ unload_try(Unloader)
    \/ return(Unloader)

\* The healthy system: no I/O failure, and nobody deletes the file.
Next ==
    \/ WriterNext
    \/ \E t \in Readers : ReaderNext(t)
    \/ UnloaderNext

Spec == Init /\ [][Next]_vars

\* The same with a disk that may fail and with delete.
NextFaults ==
    \/ Next
    \/ delete(Unloader)
    \/ WriterNextFaults
    \/ \E t \in Readers, f \in LoadFaults : load_locked(t, f)
    \/ \E t \in Readers, f \in BlobFaults : guarded(t, f)

SpecFaults == Init /\ [][NextFaults]_vars

\* The writer alone, up to finish, with a disk whose writes may fail.
SpecWriter == Init /\ [][WriterNextFaults]_vars

\* Scheduling of the lookups: a thread that can take a step of load or of the
\* lookup takes it. The locks are granted to a thread that asks again and
\* again, and unload, which passes its gate about one time in ten and never
\* waits, does not win every race for the window between a loader's release
\* of the exclusive lock and its shared lock: the step that finds the index
\* loaded is taken if it is possible again and again.
Fairness ==
    \A t \in Readers :
        /\ SF_vars(load_read(t) /\ inner.loaded)
        /\ WF_vars(load_read(t))
        /\ SF_vars(load_write(t))
        /\ WF_vars(load_locked(t, "none"))
        /\ WF_vars(guarded(t, "none"))

SpecLive == Spec /\ Fairness

\* The thread that queries layers opened from files already on disk.
Opener == NumReaders

\* The identities a caller may declare for the file: the one it was written
\* with, and ones that differ in tenant, timeline, key range or LSN.
TenantIds == {TenantId, "tenant2"}
TimelineIds == {TimelineId, "timeline2"}
FileNames ==
    {FileName(kr, l) : kr \in {<<KeyStart, KeyEnd>>, <<KeyStart, KeyEnd + 1>>},
                       l \in {InitLsn, InitLsn + 1}}

\* Layers opened with new and new_for_path over files the writer sealed, that
\* may have been damaged since, queried by one thread with any lsn_range.
NextOpen ==
    \/ \E key \in Keys, img \in Images : img.len < PAGE_SZ \div 2 /\ put_image(key, img, "none")
    \/ finish
    \/ \E c \in Corruptions : corrupt(c)
    \/ \E tl \in TimelineIds, tn \in TenantIds, fname \in FileNames : new(tl, tn, fname)
    \/ \E path \in FileNames : new_for_path(path)
    \/ \E key \in Keys, lsn_end \in (layer.lsn - 1)..(layer.lsn + 1) :
          get_value_reconstruct_data(Opener, key, lsn_end)
    \/ iter(Opener)
    \/ \E verbose \in BOOLEAN : dump(Opener, verbose)
    \/ load_read(Opener)
    \/ load_write(Opener)
    \/ load_locked(Opener, "none")
    \/ guarded(Opener, "none")
    \/ return(Opener)

SpecOpen == Init /\ [][NextOpen]_vars

\* The tests that start from an empty container.
PlainTests ==
    {"azure_upload_download_works", "azure_delete_non_exising_works",
     "azure_delete_objects_works"}

\* The writer, a machine that may crash once the file is finished, and a
\* thread that opens the file under its own name and looks keys up.
NextCrash ==
    \/ WriterNext
    \/ \E lost \in SUBSET {"values", "index", "summary"} : crash(lost)
    \/ new(TimelineId, TenantId, FileName(writer.key_range, writer.lsn))
    \/ \E key \in Keys :
          get_value_reconstruct_data(Opener, key, get_lsn_range(layer)[2])
    \/ load_read(Opener)
    \/ load_write(Opener)
    \/ load_locked(Opener, "none")
    \/ guarded(Opener, "none")
    \/ return(Opener)

SpecCrash == Init /\ [][NextCrash]_vars

\* A file finished, then written once more by a second writer to the same
\* path, with the layer of the first file queried and unloaded while no
\* writer has the file open.
NextRewrite ==
    \/ WriterNext
    \/ rewrite
    \/ \E key \in Keys :
          /\ writer.state = "finished"
          /\ get_value_reconstruct_data(Opener, key, get_lsn_range(layer)[2])
    \/ load_read(Opener)
    \/ load_write(Opener)
    \/ load_locked(Opener, "none")
    \/ guarded(Opener, "none")
    \/ return(Opener)
    \/ UnloaderNext

SpecRewrite == Init /\ [][NextRewrite]_vars

\* The remote storage tests, one after another.
NextRemote ==
    \/ \E test \in ListTests \cup PlainTests : setup(test)
    \/ azure_delete_non_exising_works
    \/ azure_delete_objects_works
    \/ \E paths \in SUBSET DeletePaths : delete_call(paths)
    \/ azure_upload_download_works
    \/ \E start \in 0..data_len, end \in 1..(data_len + 2) :
          download_range(start, Some(end))
    \/ \E start \in 0..data_len : download_range(start, Some(data_len * 100))
    \/ \E start \in 0..data_len : download_range(start, None)
    \/ upload_task
    \/ list_response
    \/ azure_pagination_should_work
    \/ azure_list_files_works
    \/ teardown

SpecRemote == Init /\ [][NextRemote]_vars

\* ------------------------------------------------------------------ claims

\* A thread whose get_value call, with a key inside key_range, has returned.
GetValueDone(t) ==
    /\ pc[t] = "done"
    /\ call[t].op = "get_value"
    /\ RangeContains(layer.key_range, call[t].key)

\* get_value(key) run alone on the layer as it stands, on a healthy disk:
\* load if the index is not loaded, then look the key up.
SerialGetValue(key) ==
    LET r == load_inner(layer, inner, disk, "none", FALSE)
    IN IF inner.loaded
       THEN get_value_lookup(layer, inner, disk, key, "none", FALSE)
       ELSE IF r.ok
            THEN get_value_lookup(layer, r.inner, disk, key, "none", FALSE)
            ELSE Ret("Err")

\* get_value(key) on a layer freshly constructed for the same file.
FreshGetValue(key) ==
    LET r == load_inner(layer, NewInner, disk, "none", FALSE)
    IN IF r.ok
       THEN get_value_lookup(layer, r.inner, disk, key, "none", FALSE)
       ELSE Ret("Err")

\* C1: every get_value that returns, whatever lookups and unloads of other
\* threads ran meanwhile, returns what the same call returns when run alone:
\* never an error, and never Missing for a key the file stores.
C1_ParallelLookupsMatchSerial ==
    \A t \in Readers :
        GetValueDone(t) =>
            /\ ret[t] = SerialGetValue(call[t].key)
            /\ ret[t].res \in {"Complete", "Missing"}
            /\ call[t].key \in DOMAIN puts => ret[t].res = "Complete"

\* Two lookups have returned, one that had to load the index again after an
\* unload, and the unloader has just unloaded once more.
C1_Witness ==
    \E t \in Readers, u \in Readers :
        /\ t # u
        /\ GetValueDone(t) /\ ret[t].res = "Complete" /\ call[t].note = "reloaded"
        /\ GetValueDone(u)
        /\ pc[Unloader] = "done" /\ call[Unloader].note = "unloaded"
        /\ ~inner.loaded

\* C2: after put_image calls that returned Ok and finish, get_value of a key
\* that was put returns Complete and records the layer's lsn with the very
\* bytes handed to put_image for that key.
C2_WriteReadRoundTrip ==
    \A t \in Readers :
        (GetValueDone(t) /\ call[t].key \in DOMAIN puts) =>
            ret[t] = [res |-> "Complete", img |-> <<layer.lsn, puts[call[t].key]>>]

\* A lookup returned the long image of a file that stores two different images.
C2_Witness ==
    \E t \in Readers :
        /\ GetValueDone(t)
        /\ DOMAIN puts = {KeyStart, KeyStart + 1}
        /\ puts[KeyStart] # puts[KeyStart + 1]
        /\ call[t].key \in DOMAIN puts
        /\ puts[call[t].key].len > PAGE_SZ \div 2
        /\ ret[t].res = "Complete"

\* C3: get_value of a key of key_range that was never put returns Missing,
\* and no get_value ever returns Continue.
C3_AbsentKeyIsMissing ==
    \A t \in Readers :
        (pc[t] = "done" /\ call[t].op = "get_value") =>
            /\ ret[t].res # "Continue"
            /\ (GetValueDone(t) /\ call[t].key \notin DOMAIN puts) =>
                   ret[t] = Ret("Missing")

\* A lookup of an absent key returned on a file that stores another key.
C3_Witness ==
    \E t \in Readers :
        /\ GetValueDone(t)
        /\ puts # EmptyMap
        /\ call[t].key \notin DOMAIN puts
        /\ ret[t].res = "Missing"

\* C4: whatever loads and unloads came before, a get_value returns what it
\* returns on a layer freshly constructed for the same file.
C4_LoadIdempotence ==
    \A t \in Readers :
        GetValueDone(t) => ret[t] = FreshGetValue(call[t].key)

\* A lookup returned an image after loading an index that had been loaded and
\* unloaded before.
C4_Witness ==
    \E t \in Readers :
        /\ GetValueDone(t)
        /\ call[t].note = "reloaded"
        /\ ret[t].res = "Complete"
        /\ inner.loaded

\* C5 (as claimed): a get_value that begins after delete removed the file
\* returns an error, whatever the layer had cached.
C5_GetValueFailsAfterDelete ==
    \A t \in Readers :
        (GetValueDone(t) /\ call[t].deleted) => ret[t].res = "Err"

\* A step of the writer that is a put_image call.
PutStep ==
    /\ wcall'.op = "put_image"
    /\ <<writer, wcall, puts, disk>>' # <<writer, wcall, puts, disk>>

\* C6: put_image with a key outside key_range returns an error, writes no
\* blob and no index entry, and leaves the writer open for further calls.
C6_OutOfRangeRejected ==
    /\ []((wcall.op = "put_image" /\ wcall.ret = "Err") =>
            (writer.state = "open" /\ ENABLED finish))
    /\ [][(PutStep /\ ~RangeContains(writer.key_range, wcall'.key)) =>
            (wcall'.ret = "Err" /\ UNCHANGED <<writer, puts, disk>>)]_vars

\* A key outside key_range was rejected after an image had been put.
C6_Witness ==
    /\ wcall.op = "put_image" /\ wcall.ret = "Err"
    /\ ~RangeContains(writer.key_range, wcall.key)
    /\ puts # EmptyMap
    /\ writer.state = "open"

\* The records of an index name each key once.
IndexKeysUnique(recs) ==
    \A i, j \in 1..Len(recs) : recs[i][1] = recs[j][1] => i = j

\* C7 (as claimed): put_image of a key already inserted always panics.
C7_DuplicateKeyPanics ==
    [][(PutStep /\ wcall'.key \in DOMAIN writer.index) => wcall'.ret = "Panic"]_vars

\* C7 (amended): put_image of a key already inserted never returns Ok: it
\* panics once the blob is written, and returns the I/O error, with nothing
\* inserted, when write_blob fails; a finished index names each key once.
C7_DuplicateKeyNeverOk ==
    /\ [](writer.state = "finished" => IndexKeysUnique(disk.index.recs))
    /\ [][(PutStep /\ wcall'.key \in DOMAIN writer.index) =>
            \/ wcall'.ret = "Panic" /\ writer'.state = "panicked"
            \/ wcall'.ret = "IoErr" /\ UNCHANGED <<writer, puts, disk>>]_vars

\* A put_image of an inserted key has panicked.
C7_Witness ==
    /\ wcall.op = "put_image" /\ wcall.ret = "Panic"
    /\ wcall.key \in DOMAIN puts
    /\ writer.state = "panicked"

\* The step of unload that tries the lock.
UnloadTryStep == pc[Unloader] = "unload_try" /\ pc'[Unloader] = "done"

\* C8: unload never waits for the lock: while a reader or a loader holds it,
\* unload returns Ok at once and leaves inner as it is.
C8_UnloadNeverBlocks ==
    /\ [](pc[Unloader] = "unload_try" => ENABLED unload_try(Unloader))
    /\ [][(UnloadTryStep /\ ~LockFree) =>
            (ret'[Unloader] = Ret("Ok") /\ UNCHANGED <<inner, lock>>)]_vars

\* unload has returned while a reader still holds its guard on a loaded index.
C8_Witness ==
    /\ pc[Unloader] = "done" /\ call[Unloader].note = "would_block"
    /\ lock.readers # {}
    /\ inner.loaded /\ inner.index # EmptyMap

\* C9: an unload that gets the lock empties the index and clears loaded, and
\* leaves the file handle and index_start_blk; every unload returns Ok.
C9_UnloadEffect ==
    [][/\ (UnloadTryStep /\ LockFree) =>
            /\ inner'.index = EmptyMap /\ ~inner'.loaded
            /\ inner'.file = inner.file
            /\ inner'.index_start_blk = inner.index_start_blk
       /\ (pc[Unloader] # "done" /\ pc'[Unloader] = "done"
             /\ call'[Unloader].op = "unload") => ret'[Unloader] = Ret("Ok")]_vars

\* unload has dropped the index of a layer that stores images and kept its
\* file handle.
C9_Witness ==
    /\ pc[Unloader] = "done" /\ call[Unloader].note = "unloaded"
    /\ ret[Unloader] = Ret("Ok")
    /\ puts # EmptyMap
    /\ inner.file = "Some" /\ ~inner.loaded /\ inner.index = EmptyMap
    /\ inner.index_start_blk > 1

\* C10: a load that fails returns the error and leaves the layer unloaded
\* with an empty index and the lock released; whatever failed loads came
\* before, a load on a healthy disk succeeds.
C10_FailedLoadLeavesUnloaded ==
    /\ []((layer.made /\ ~inner.loaded /\ disk.exists) =>
            load_inner(layer, inner, disk, "none", FALSE).ok)
    /\ [][\A t \in Readers :
            (pc[t] = "load_wlocked" /\ pc'[t] = "done") =>
                /\ ret'[t] = Ret("Err")
                /\ ~inner'.loaded /\ inner'.index = EmptyMap
                /\ lock'.writer = {}]_vars

\* One call got the error of a failed load; another then loaded through the
\* file handle the failed load left and returned an image.
C10_Witness ==
    \E t \in Readers, u \in Readers :
        /\ pc[t] = "done" /\ ret[t].res = "Err" /\ ~call[t].deleted
        /\ call[t].op \in {"get_value", "dump"}
        /\ GetValueDone(u) /\ ret[u].res = "Complete"
        /\ call[u].note = "reloaded"
        /\ inner.loaded /\ disk.exists

\* The summary on disk carries another magic or another format version.
BadHeader(d) ==
    \/ d.summary.magic # IMAGE_FILE_MAGIC
    \/ d.summary.format_version # STORAGE_FORMAT_VERSION

\* The step in which thread t runs load_inner.
LoadInnerStep(t) == pc[t] = "load_wlocked" /\ ~inner.loaded /\ pc'[t] # pc[t]

\* C11 (as claimed): load_inner on a file whose summary has another magic or
\* format version fails and leaves loaded false, for layers made by new and
\* for layers made by new_for_path.
C11_BadHeaderFailsLoad ==
    [][\A t \in Readers :
          (LoadInnerStep(t) /\ BadHeader(disk)) =>
              (~inner'.loaded /\ ret'[t] = Ret("Err"))]_vars

\* The summary on disk states the identity the layer declares; its
\* index_start_blk is not looked at.
IdentityMatches(d, ly) ==
    /\ d.summary.magic = IMAGE_FILE_MAGIC
    /\ d.summary.format_version = STORAGE_FORMAT_VERSION
    /\ d.summary.tenantid = ly.tenantid
    /\ d.summary.timelineid = ly.timelineid
    /\ d.summary.key_range = ly.key_range
    /\ d.summary.lsn = ly.lsn

\* C12: on a disk without I/O errors, load_inner of a layer whose path comes
\* from configuration succeeds exactly when the summary on disk equals the
\* declared identity, whatever index_start_blk says; load_inner of a layer
\* opened by path succeeds even when the file name disagrees with the summary.
C12_IdentityCheckOnLoad ==
    [][\A t \in Readers :
          LoadInnerStep(t) =>
              /\ layer.path_or_conf = "Conf" =>
                    (inner'.loaded <=> IdentityMatches(disk, layer))
              /\ layer.path_or_conf = "Path" => inner'.loaded
              /\ inner'.loaded => inner'.index_start_blk = disk.summary.index_start_blk
              /\ ~inner'.loaded => ret'[t] = Ret("Err")]_vars

\* A lookup returned an image from a layer opened by a path whose file name
\* disagrees with the summary.
C12_Witness ==
    /\ layer.path_or_conf = "Path"
    /\ layer.path # FileName(layer.key_range, layer.lsn)
    /\ inner.loaded
    /\ pc[Opener] = "done" /\ call[Opener].op = "get_value"
    /\ ret[Opener].res = "Complete"

\* The offsets of an index all lie in the values part of the file, below
\* index_start_blk * PAGE_SZ.
OffsetsInValues(index, index_start_blk) ==
    \A k \in DOMAIN index : BlobRefPos(index[k]) < index_start_blk * PAGE_SZ

\* C13 (as claimed): load_inner rejects an index on disk that has an offset
\* at or past index_start_blk * PAGE_SZ or that names a key twice, so a
\* loaded layer never holds an offset outside the values part.
C13_BadIndexFailsLoad ==
    /\ [](inner.loaded => OffsetsInValues(inner.index, inner.index_start_blk))
    /\ [][\A t \in Readers :
            (/\ LoadInnerStep(t)
             /\ \/ ~IndexKeysUnique(disk.index.recs)
                \/ \E i \in 1..Len(disk.index.recs) :
                      BlobRefPos(disk.index.recs[i][2]) >=
                          disk.summary.index_start_blk * PAGE_SZ)
            => (~inner'.loaded /\ ret'[t] = Ret("Err"))]_vars

C15_PreconditionsAsserted ==
    \A t \in Readers :
        (/\ pc[t] = "done" /\ call[t].op = "get_value"
         /\ \/ ~RangeContains(layer.key_range, call[t].key)
            \/ call[t].lsn_end <= layer.lsn)
        => ret[t] = Ret("Panic")

\* C16 (as claimed): iter on a layer returns, and what it yields are the
\* (key, lsn, value) of the pairs written, each once, with the layer's lsn.
C16_IterRoundTrip ==
    \A t \in Readers :
        (pc[t] = "done" /\ call[t].op = "iter") =>
            /\ ret[t].res = "Ok"
            /\ {ret[t].img[i] : i \in DOMAIN ret[t].img} =
                   {<<k, layer.lsn, puts[k]>> : k \in DOMAIN puts}
            /\ Len(ret[t].img) = Cardinality(DOMAIN puts)

\* C17: every key in the writer's index lies in its key_range [a, b), after
\* any puts, accepted or rejected; so every key of the index that finish
\* wrote lies in the key_range of the summary.
C17_IndexKeysInRange ==
    /\ \A k \in DOMAIN writer.index :
          writer.key_range[1] <= k /\ k < writer.key_range[2]
    /\ writer.state = "finished" =>
          \A i \in 1..Len(disk.index.recs) :
              /\ disk.summary.key_range[1] <= disk.index.recs[i][1]
              /\ disk.index.recs[i][1] < disk.summary.key_range[2]

\* The writer holds every key of its range and has just rejected the key
\* that is the end of the range.
C17_Witness ==
    /\ DOMAIN writer.index = KeyStart..(KeyEnd - 1)
    /\ wcall.op = "put_image" /\ wcall.key = KeyEnd /\ wcall.ret = "Err"

\* C18: in a file made by new, put_image and finish every index entry carries
\* the image flag and an offset in [PAGE_SZ, index_start_blk * PAGE_SZ);
\* distinct keys have distinct offsets; and each accepted put_image records
\* the offset the blob writer had before the write, above every offset
\* recorded earlier.
C18_OffsetsInValuesPart ==
    /\ [](\A k \in DOMAIN writer.index :
             /\ PAGE_SZ <= BlobRefPos(writer.index[k])
             /\ BlobRefPos(writer.index[k]) < writer.offset
             /\ BlobRefWillInit(writer.index[k]))
    /\ [](writer.state = "finished" =>
             \A i, j \in 1..Len(disk.index.recs) :
                 /\ PAGE_SZ <= BlobRefPos(disk.index.recs[i][2])
                 /\ BlobRefPos(disk.index.recs[i][2]) <
                        disk.summary.index_start_blk * PAGE_SZ
                 /\ BlobRefWillInit(disk.index.recs[i][2])
                 /\ i # j => BlobRefPos(disk.index.recs[i][2]) #
                                 BlobRefPos(disk.index.recs[j][2]))
    /\ [][(PutStep /\ wcall'.ret = "Ok") =>
             /\ BlobRefPos(writer'.index[wcall'.key]) = writer.offset
             /\ \A k \in DOMAIN writer.index :
                   BlobRefPos(writer.index[k]) < BlobRefPos(writer'.index[wcall'.key])]_vars

\* A finished file with two images that fill more than two pages, the second
\* one at an offset that is not a page boundary.
C18_Witness ==
    /\ writer.state = "finished"
    /\ Len(disk.index.recs) = 2
    /\ disk.summary.index_start_blk > 2
    /\ \E i \in 1..2 :
          /\ BlobRefPos(disk.index.recs[i][2]) > PAGE_SZ
          /\ BlobRefPos(disk.index.recs[i][2]) % PAGE_SZ # 0

\* C19: with more blobs in the container than one list response carries,
\* list_prefixes(None) returns the base prefix alone, list_prefixes(base
\* prefix) returns the sub-prefix of every upload, list_files(None) returns
\* every uploaded file and list_files(folder1) those below folder1, nothing
\* else and nothing less, and the tests' assertions pass.
C19_ListingCompleteUnderPagination ==
    (remote.test \in ListTests /\ remote.pc \in {"assert", "passed", "failed"}) =>
        /\ remote.pc # "failed"
        /\ Cardinality(DOMAIN remote.container) = upload_tasks_count
        /\ upload_tasks_count > max_keys_in_list_response
        /\ remote.test = "azure_pagination_should_work" =>
              /\ remote.root = {<<Seg("test", 0)>>}
              /\ remote.nested =
                    {<<Seg("test", 0), Seg("sub_prefix_", i)>> : i \in 1..upload_tasks_count}
        /\ remote.test = "azure_list_files_works" =>
              /\ remote.root =
                    {<<Seg("folder", i \div 7), Seg("blob_.txt", i)>> :
                        i \in 1..upload_tasks_count}
              /\ remote.nested =
                    {<<Seg("folder", 1), Seg("blob_.txt", i)>> : i \in 7..13}

\* The pagination test passed after a listing that took three responses.
C19_Witness ==
    /\ remote.test = "azure_pagination_should_work" /\ remote.pc = "passed"
    /\ remote.list.pages = 3
    /\ Cardinality(remote.nested) = upload_tasks_count

\* C20: download returns the bytes uploaded, and download_byte_range(start,
\* end) returns them from start up to end, or up to the end of the object
\* when end lies beyond it or is None; the test's assertions pass.
C20_DownloadByteRange ==
    (remote.test = "azure_upload_download_works" /\ remote.dl # NoDownload) =>
        LET d == remote.dl
            stop == IF d.end = {} \/ (\E e \in d.end : e > data_len)
                    THEN data_len ELSE CHOOSE e \in d.end : TRUE
        IN /\ remote.pc # "failed"
           /\ Len(d.buf) = stop - d.start
           /\ \A j \in 1..Len(d.buf) : d.buf[j] = data[d.start + j]

\* A download whose end lies far beyond the object returned its tail.
C20_Witness ==
    /\ remote.test = "azure_upload_download_works"
    /\ remote.dl.end = Some(data_len * 100)
    /\ remote.dl.start = 8
    /\ Len(remote.dl.buf) = data_len - 8
    /\ remote.dl.buf[1] = "l"

C22_GuardKeepsIndex ==
    /\ [](\A t \in Readers :
             /\ pc[t] = "guarded" =>
                   /\ t \in lock.readers /\ lock.writer = {}
                   /\ inner.loaded /\ inner.file = "Some"
                   /\ inner.index = HashMapDes(disk.index.recs)
                   /\ DOMAIN inner.index = DOMAIN puts
             /\ pc[t] \in {"idle", "load_read", "load_write", "done"} =>
                   (t \notin lock.writer /\ t \notin lock.readers))
    /\ [][lock.readers # {} => inner' = inner]_vars

\* Two lookups hold their guards on an index of two keys, and an unload that
\* passed its gate meanwhile has returned without touching it.
C22_Witness ==
    /\ \A t \in Readers : pc[t] = "guarded" /\ call[t].op = "get_value"
    /\ lock.readers = Readers
    /\ pc[Unloader] = "done" /\ call[Unloader].note = "would_block"
    /\ Cardinality(DOMAIN inner.index) = 2

\* C23: load_inner runs only in a thread that holds the lock exclusively,
\* alone, and finds loaded false; a thread that gets the exclusive lock and
\* finds loaded true runs no load_inner, leaves inner as it is and goes back
\* to the shared lock; no two threads are in load_inner at once.
C23_LoadInnerUnderExclusiveLock ==
    /\ [](\A t \in Readers :
             pc[t] = "load_wlocked" =>
                 /\ lock.writer = {t} /\ lock.readers = {}
                 /\ \A u \in Readers \ {t} : pc[u] # "load_wlocked")
    /\ [][/\ (inner'.loaded /\ ~inner.loaded) =>
               \E t \in Readers :
                   /\ pc[t] = "load_wlocked" /\ lock.writer = {t}
                   /\ pc'[t] = "load_read" /\ lock'.writer = {}
          /\ \A t \in Readers :
               (pc[t] = "load_wlocked" /\ inner.loaded /\ pc'[t] # pc[t]) =>
                   /\ pc'[t] = "load_read"
                   /\ UNCHANGED <<inner, reloaded, ret>>
                   /\ lock'.writer = {}]_vars

\* A thread holds the exclusive lock it asked for while the index was not
\* loaded, and finds it loaded by the other thread, which is back at the
\* shared lock.
C23_Witness ==
    \E t \in Readers, u \in Readers :
        /\ t # u
        /\ pc[t] = "load_wlocked" /\ lock.writer = {t}
        /\ inner.loaded /\ ~reloaded /\ inner.index # EmptyMap
        /\ pc[u] = "load_read"
        /\ call[t].op = "get_value" /\ call[u].op = "get_value"

\* C24: after finish, index_start_blk is the least number of pages that
\* hold the bytes up to the write offset; the index lies at byte
\* index_start_blk * PAGE_SZ; the summary and the layer carry that same
\* index_start_blk; it is at least 1, and exactly 1 when no image was put.
C24_IndexStartBlk ==
    writer.state = "finished" =>
        LET blk == disk.summary.index_start_blk
        IN /\ blk * PAGE_SZ >= writer.offset
           /\ (blk - 1) * PAGE_SZ < writer.offset
           /\ disk.index.at = blk * PAGE_SZ
           /\ inner.index_start_blk = blk
           /\ blk >= 1
           /\ writer.index = EmptyMap => (blk = 1 /\ writer.offset = PAGE_SZ)
           /\ writer.index # EmptyMap => blk > 1

\* finish has sealed a file whose values end inside the second page: the
\* index starts at the third.
C24_Witness ==
    /\ writer.state = "finished" /\ wcall.op = "finish"
    /\ writer.offset > PAGE_SZ /\ writer.offset % PAGE_SZ # 0
    /\ disk.summary.index_start_blk = 2
    /\ disk.index.at = 2 * PAGE_SZ
    /\ inner.index_start_blk = 2

\* C25 (as claimed): when finish returns, everything it and put_image wrote
\* has been flushed and fsynced, so a crash after finish loses nothing and a
\* lookup of a key that was put returns its image.
C25_FinishDurable ==
    /\ writer.state = "finished" => disk.unsynced = <<>>
    /\ \A t \in Readers :
          (GetValueDone(t) /\ call[t].key \in DOMAIN puts) =>
              ret[t].res = "Complete"

\* C26: the layer finish returns carries the writer's tenant, timeline,
\* key_range and lsn; that layer, and every layer made by new or
\* new_for_path, starts not loaded, with an empty index and no file handle;
\* a file handle appears only in the load of a get_value or of a verbose dump.
C26_LayerStartsUnloaded ==
    [][/\ (writer.state = "open" /\ writer'.state = "finished") =>
            /\ layer'.made /\ layer'.path_or_conf = "Conf"
            /\ layer'.tenantid = TenantId /\ layer'.timelineid = TimelineId
            /\ layer'.key_range = writer.key_range /\ layer'.lsn = writer.lsn
            /\ disk'.summary.key_range = writer.key_range
            /\ disk'.summary.lsn = writer.lsn
       /\ layer' # layer =>
            (~inner'.loaded /\ inner'.index = EmptyMap /\ inner'.file = "None")
       /\ (inner.file = "None" /\ inner'.file = "Some") =>
            \E t \in Readers :
                /\ pc[t] = "load_wlocked" /\ pc'[t] # pc[t]
                /\ call[t].op \in {"get_value", "dump"}
       /\ \A t \in Readers :
            (pc[t] = "idle" /\ pc'[t] = "done") => inner' = inner]_vars

\* The layer finish returned has nothing loaded and no file handle while its
\* first lookup, of a file that stores an image, is about to lock it.
C26_Witness ==
    /\ wcall.op = "finish" /\ layer.made /\ layer.path_or_conf = "Conf"
    /\ layer.lsn = writer.lsn /\ layer.key_range = writer.key_range
    /\ puts # EmptyMap
    /\ ~inner.loaded /\ inner.index = EmptyMap /\ inner.file = "None"
    /\ pc[Opener] = "load_write" /\ call[Opener].op = "get_value"

\* C27: a layer opens its file at most once: it holds a file handle exactly
\* when it has opened the file once, and no step, be it an unload, a load
\* that fails, a delete or a later load, drops the handle or opens the path
\* again.
C27_FileOpenedOnce ==
    /\ [](inner.opens <= 1 /\ (inner.file = "Some" <=> inner.opens = 1))
    /\ [][inner.file = "Some" =>
            (inner'.file = "Some" /\ inner'.opens = inner.opens)]_vars

\* After an unload, a load that failed and a delete, a lookup has returned an
\* image read through the one handle the layer ever opened.
C27_Witness ==
    \E t \in Readers, u \in Readers :
        /\ pc[t] = "done" /\ ret[t].res = "Err" /\ call[t].op = "get_value"
        /\ ~call[t].deleted
        /\ GetValueDone(u) /\ ret[u].res = "Complete" /\ call[u].note = "reloaded"
        /\ call[u].deleted /\ ~disk.exists
        /\ inner.file = "Some" /\ inner.opens = 1

\* C28 (as claimed): once a second writer to the same path has finished, a
\* get_value on the layer of the first file fails or answers from the new
\* file: Complete with the image the new file stores for the key, Missing
\* only for a key the new file does not store.
C28_RewriteNeverStale ==
    \A t \in Readers :
        GetValueDone(t) =>
            \/ ret[t].res = "Err"
            \/ /\ call[t].key \in DOMAIN puts
               /\ ret[t] = [res |-> "Complete",
                            img |-> <<layer.lsn, puts[call[t].key]>>]
            \/ /\ call[t].key \notin DOMAIN puts
               /\ ret[t] = Ret("Missing")

\* C29: whenever no thread holds the lock exclusively, a layer that is not
\* loaded has an empty index; an index in memory is the whole index of the
\* file, there from a load_inner that succeeded until the next unload that
\* gets the lock; a load that fails leaves none of it.
C29_UnloadedIndexEmpty ==
    /\ lock.writer = {} => (~inner.loaded => inner.index = EmptyMap)
    /\ inner.index # EmptyMap =>
          (inner.loaded /\ inner.index = HashMapDes(disk.index.recs))
    /\ \A t \in Readers :
          (pc[t] = "done" /\ ret[t].res = "Err" /\ ~inner.loaded) =>
              inner.index = EmptyMap

\* After a load, an unload that got the lock and a load that failed past the
\* open, the layer of a file that stores images is not loaded and its index
\* is empty.
C29_Witness ==
    \E t \in Readers :
        /\ pc[t] = "done" /\ ret[t].res = "Err" /\ ~call[t].deleted
        /\ pc[Unloader] = "done" /\ call[Unloader].note = "unloaded"
        /\ disk.exists /\ puts # EmptyMap
        /\ inner.file = "Some" /\ ~inner.loaded /\ inner.index = EmptyMap
        /\ lock.writer = {}

\* C30: in every state a loaded layer has a file handle, whatever get_value,
\* dump, unload and delete calls ran and however they interleaved; so no
\* get_value with a key of key_range panics at the unwrap of the handle.
C30_LoadedHasFile ==
    /\ inner.loaded => inner.file = "Some"
    /\ \A t \in Readers :
          pc[t] = "guarded" =>
              get_value_lookup(layer, inner, disk, call[t].key, "none", FALSE).res # "Panic"
    /\ \A t \in Readers : GetValueDone(t) => ret[t].res # "Panic"

\* A lookup holds its guard on a loaded index that has its key, after the
\* file was deleted and while an unload has returned without the lock.
C30_Witness ==
    \E t \in Readers :
        /\ pc[t] = "guarded" /\ call[t].op = "get_value"
        /\ call[t].key \in DOMAIN inner.index
        /\ ~disk.exists
        /\ pc[Unloader] = "done" /\ call[Unloader].note = "would_block"
        /\ inner.loaded /\ inner.file = "Some"

\* C31 (as claimed): whatever offset the blob writer has reached, the
\* index_start_blk that finish stores is no smaller than the block count it
\* was narrowed from, so the index begins at or after the write offset,
\* index_start_blk * PAGE_SZ >= offset, and never inside the values.
C31_IndexStartBlkNeverWraps ==
    wide.state = "finished" =>
        /\ OffLe(wide.offset, Off(wide.index_start_blk, 0))
        /\ OffLe(wide.offset, wide.index_at)

====
